---- MODULE Spec2Model ----
(***************************************************************************)
(* State-machine model of jk1806/Portfolio:                                *)
(*  - python_dsa/thermal_management_ai.py (class ThermalManagementAI): the *)
(*    instance fields, the threads that call start_thermal_control,        *)
(*    stop_thermal_control and get_thermal_stats, and the daemon threads   *)
(*    that run _thermal_control_loop;                                      *)
(*  - python_dsa/algorithms.py: quick_sort and binary_search;              *)
(*  - create_clean_simple.py and create_perfect_portfolio.py: the files,   *)
(*    the dated commits and the exit status of a run.                      *)
(*                                                                         *)
(* Temperatures and percentages are floats in the source.  The model keeps *)
(* them as fixed-point integers: the integer v stands for v / Scale.       *)
(***************************************************************************)
EXTENDS Integers, Sequences, FiniteSets, TLC

VARIABLES
    running,              \* self.running
    control_thread,       \* self.control_thread: 0 is None, else a Thread id
    nthreads,             \* number of threading.Thread objects constructed
    tpc,                  \* per Thread object: where it is in _thermal_control_loop
    tlocal,               \* per Thread object: the locals of the current tick
    temperature_history,  \* self.temperature_history
    power_reduction,      \* self.power_reduction
    model,                \* self.model: "None" or "Sequential"
    accuracy,             \* self.accuracy, in percent
    callers,              \* the application threads that call the instance
    cpc,                  \* per caller: the line of the call it is executing
    ret,                  \* per caller: outcome of its last start_thermal_control
    ticks,                \* history variable: loop iterations begun so far
    opt_arg,              \* argument of the last direct optimize_cooling_system call
    opt_ret,              \* what that call returned
    target_temperature,   \* self.target_temperature
    max_temperature,      \* self.max_temperature
    min_temperature,      \* self.min_temperature
    appended,             \* history variable: every reading line 209 appended
    stats,                \* per caller: the dict its get_thermal_stats builds
    test_array,           \* algorithms.py: the list handed to quick_sort
    sorted_array,         \* algorithms.py: what quick_sort returned
    target,               \* algorithms.py: the value binary_search looks for
    left,                 \* binary_search: local left
    right,                \* binary_search: local right
    index,                \* binary_search: the value returned
    apc,                  \* algorithms.py: the line being executed
    script,               \* which commit script runs
    spc,                  \* commit script: the step being executed
    unit,                 \* commit script: number of the file being committed
    current_date,         \* commit script: current_date, days after start_date
    environ,              \* commit script: os.environ's two git dates
    files,                \* commit script: the files written so far
    commits,              \* commit script: the commits made so far
    failed,               \* commit script: the call that raised, if any
    log_result,           \* commit script: result, what run_git_command returned
    exit_code             \* commit script: the interpreter's exit status

\* the three temperature attributes of the instance
thresholds ==
    << min_temperature, target_temperature, max_temperature >>

\* the state of python_dsa/algorithms.py
algo_vars ==
    << test_array, sorted_array, target, left, right, index, apc >>

\* the state of a commit script
script_vars ==
    << script, spc, unit, current_date, environ, files, commits, failed,
       log_result, exit_code >>

\* what no ThermalManagementAI method touches
outside ==
    << algo_vars, script_vars >>

\* the state of a ThermalManagementAI instance and the threads that use it
thermal_vars ==
    << running, control_thread, nthreads, tpc, tlocal, temperature_history,
       power_reduction, model, accuracy, callers, cpc, ret, ticks, opt_arg,
       opt_ret, thresholds, appended, stats >>

vars ==
    << thermal_vars, algo_vars, script_vars >>

----------------------------------------------------------------------------
(* Bounds of the model *)

Scale ==
    2
MaxThreads ==
    2
MaxTicks ==
    2
\* longest list handed to quick_sort
MaxLen ==
    4

----------------------------------------------------------------------------
(* Program constants of ThermalManagementAI *)

cooling_efficiency ==
    80
HistoryLimit ==
    100
\* the number of readings get_thermal_stats reports
RecentReadings ==
    10

Unset ==
    0 - 1
NoOptimization ==
    << >>
\* a caller that has not asked for the statistics holds no dict
NoStats ==
    << >>
\* os.environ before the script sets the two git dates
NoDates ==
    << >>

Threads ==
    1 .. MaxThreads
AllCallers ==
    {1, 2}

Min(a, b) ==
    IF a <= b THEN a ELSE b
Max(a, b) ==
    IF a >= b THEN a ELSE b

\* np.clip(x, lo, hi)
clip(x, lo, hi) ==
    Max(lo, Min(x, hi))

----------------------------------------------------------------------------
(* Inputs the environment supplies *)

\* np.random.uniform(40, 80): the sampled sensor temperatures
CurrentTemps ==
    {40 * Scale, 80 * Scale}
\* np.random.uniform(0, 100) for cpu_usage and gpu_usage: the sampled pairs
\* whose fallback increase is a whole number of model units
UsagePairs ==
    {u \in {0, 50, 100} \X {0, 50, 100} : ((u[1] * 3 + u[2] * 4) * Scale) % 1000 = 0}
\* what self.model.predict may return: below, inside and above the clamp range
RawPredictions ==
    {20 * Scale, 76 * Scale, 86 * Scale}
\* arguments a caller may pass to optimize_cooling_system directly
TempRange ==
    (20 * Scale) .. (95 * Scale)
CallerTemps ==
    {75 * Scale, 86 * Scale}

----------------------------------------------------------------------------
(* Pure functions *)

\* _fallback_prediction: current_temp + (cpu*0.3 + gpu*0.4)/100, clipped
_fallback_prediction(current_temp, cpu_usage, gpu_usage) ==
    LET temp_increase == ((cpu_usage * 3 + gpu_usage * 4) * Scale) \div 1000
        predicted_temp == current_temp + temp_increase
    IN  clip(predicted_temp, min_temperature, max_temperature)

\* variant: the prediction is returned without the clamp
clamp_prediction_missing(raw) ==
    raw

\* predict_thermal_behavior on the model path: the clamp of lines 107-108
clamp_prediction(raw) ==
    clip(raw, min_temperature, max_temperature)

\* variant: the excess is taken as target minus prediction
optimize_swapped_excess(predicted_temp) ==
    LET temp_excess == target_temperature - predicted_temp
    IN  IF predicted_temp > target_temperature
        THEN [ power_reduction    |-> Min(temp_excess * 5, 60 * Scale),
               fan_speed_increase |-> Min(temp_excess * 20, 50 * Scale),
               cooling_power      |-> Min(temp_excess * 10, 100 * Scale),
               efficiency         |-> cooling_efficiency ]
        ELSE [ power_reduction    |-> 0,
               fan_speed_increase |-> 0,
               cooling_power      |-> 0,
               efficiency         |-> cooling_efficiency ]

\* variant: the prediction is compared with min_temperature
optimize_wrong_threshold(predicted_temp) ==
    LET temp_excess == predicted_temp - target_temperature
    IN  IF predicted_temp > min_temperature
        THEN [ power_reduction    |-> Min(temp_excess * 5, 60 * Scale),
               fan_speed_increase |-> Min(temp_excess * 20, 50 * Scale),
               cooling_power      |-> Min(temp_excess * 10, 100 * Scale),
               efficiency         |-> cooling_efficiency ]
        ELSE [ power_reduction    |-> 0,
               fan_speed_increase |-> 0,
               cooling_power      |-> 0,
               efficiency         |-> cooling_efficiency ]

\* variant: power_reduction is stored without its cap
optimize_no_cap(predicted_temp) ==
    LET temp_excess == predicted_temp - target_temperature
    IN  IF predicted_temp > target_temperature
        THEN [ power_reduction    |-> temp_excess * 5,
               fan_speed_increase |-> Min(temp_excess * 20, 50 * Scale),
               cooling_power      |-> Min(temp_excess * 10, 100 * Scale),
               efficiency         |-> cooling_efficiency ]
        ELSE [ power_reduction    |-> 0,
               fan_speed_increase |-> 0,
               cooling_power      |-> 0,
               efficiency         |-> cooling_efficiency ]

\* variant: the caps of fan_speed_increase and cooling_power are exchanged
optimize_swapped_caps(predicted_temp) ==
    LET temp_excess == predicted_temp - target_temperature
    IN  IF predicted_temp > target_temperature
        THEN [ power_reduction    |-> Min(temp_excess * 5, 60 * Scale),
               fan_speed_increase |-> Min(temp_excess * 20, 100 * Scale),
               cooling_power      |-> Min(temp_excess * 10, 50 * Scale),
               efficiency         |-> cooling_efficiency ]
        ELSE [ power_reduction    |-> 0,
               fan_speed_increase |-> 0,
               cooling_power      |-> 0,
               efficiency         |-> cooling_efficiency ]

\* optimize_cooling_system: the dictionary it returns for a numeric argument
optimize_result(predicted_temp) ==
    LET temp_excess == predicted_temp - target_temperature
    IN  IF predicted_temp > target_temperature
        THEN [ power_reduction    |-> Min(temp_excess * 5, 60 * Scale),
               fan_speed_increase |-> Min(temp_excess * 20, 50 * Scale),
               cooling_power      |-> Min(temp_excess * 10, 100 * Scale),
               efficiency         |-> cooling_efficiency ]
        ELSE [ power_reduction    |-> 0,
               fan_speed_increase |-> 0,
               cooling_power      |-> 0,
               efficiency         |-> cooling_efficiency ]

----------------------------------------------------------------------------
(* Threads *)

\* threading.Thread.is_alive()
is_alive(t) ==
    tpc[t] \notin {"unborn", "created", "dead"}
\* Thread._started.is_set(): start() has been called on the object
is_started(t) ==
    tpc[t] \notin {"unborn", "created"}
AliveThreads ==
    {t \in Threads : is_alive(t)}
LoopAlive ==
    AliveThreads # {}

NoLocals ==
    [current_temp |-> Unset, raw_prediction |-> Unset,
     predicted_temp |-> Unset, optimization |-> NoOptimization]

----------------------------------------------------------------------------
(* State after ThermalManagementAI() *)

InitFields ==
    /\ running = FALSE
    /\ control_thread = 0
    /\ nthreads = 0
    /\ tpc = [t \in Threads |-> "unborn"]
    /\ tlocal = [t \in Threads |-> NoLocals]
    /\ temperature_history = << >>
    /\ power_reduction = 0
    /\ model = "None"
    /\ accuracy = 0
    /\ cpc = [c \in AllCallers |-> "idle"]
    /\ ret = [c \in AllCallers |-> "none"]
    /\ ticks = 0
    /\ opt_arg = Unset
    /\ opt_ret = NoOptimization
    /\ target_temperature = 75 * Scale
    /\ max_temperature = 85 * Scale
    /\ min_temperature = 30 * Scale
    /\ appended = << >>
    /\ stats = [c \in AllCallers |-> NoStats]

\* python_dsa/algorithms.py is not running
AlgoIdle ==
    /\ test_array = << >>
    /\ sorted_array = << >>
    /\ target = 0
    /\ left = 0
    /\ right = 0
    /\ index = Unset
    /\ apc = "idle"

\* no commit script is running
ScriptIdle ==
    /\ script = "none"
    /\ spc = "idle"
    /\ unit = 0
    /\ current_date = 0
    /\ environ = NoDates
    /\ files = << >>
    /\ commits = << >>
    /\ failed = "none"
    /\ log_result = "unset"
    /\ exit_code = Unset

\* one application thread drives the instance
Init ==
    /\ InitFields
    /\ callers = {1}
    /\ AlgoIdle
    /\ ScriptIdle

\* two application threads share the instance
InitRace ==
    /\ InitFields
    /\ callers = {1, 2}
    /\ AlgoIdle
    /\ ScriptIdle

----------------------------------------------------------------------------
(* start_thermal_control, executed by caller c *)

StartsInFlight ==
    Cardinality({c \in callers : cpc[c] \in {"start_168", "start_169"}})

\* variant: the guard is missing
never_running ==
    FALSE

\* line 164: self.control_thread and self.control_thread.is_alive()
already_running ==
    control_thread # 0 /\ is_alive(control_thread)

\* the call is made
start_call(c) ==
    /\ c \in callers
    /\ cpc[c] = "idle"
    /\ cpc' = [cpc EXCEPT ![c] = "start_164"]
    /\ ret' = [ret EXCEPT ![c] = "none"]
    /\ UNCHANGED << running, control_thread, nthreads, tpc, tlocal,
                    temperature_history, power_reduction, model, accuracy,
                    callers, ticks, opt_arg, opt_ret,
                    thresholds, appended, stats, outside >>

\* lines 164-166: the guard, and the early return False
start_164(c) ==
    /\ c \in callers
    /\ cpc[c] = "start_164"
    /\ IF already_running
       THEN /\ cpc' = [cpc EXCEPT ![c] = "idle"]
            /\ ret' = [ret EXCEPT ![c] = "False"]
       ELSE /\ nthreads + StartsInFlight < MaxThreads
            /\ cpc' = [cpc EXCEPT ![c] = "start_168"]
            /\ ret' = ret
    /\ UNCHANGED << running, control_thread, nthreads, tpc, tlocal,
                    temperature_history, power_reduction, model, accuracy,
                    callers, ticks, opt_arg, opt_ret,
                    thresholds, appended, stats, outside >>

\* line 168: self.running = True
start_168(c) ==
    /\ c \in callers
    /\ cpc[c] = "start_168"
    /\ running' = TRUE
    /\ cpc' = [cpc EXCEPT ![c] = "start_169"]
    /\ UNCHANGED << control_thread, nthreads, tpc, tlocal, temperature_history,
                    power_reduction, model, accuracy, callers, ret, ticks,
                    opt_arg, opt_ret,
                    thresholds, appended, stats, outside >>

\* line 169: self.control_thread = threading.Thread(target=self._thermal_control_loop)
start_169(c) ==
    /\ c \in callers
    /\ cpc[c] = "start_169"
    /\ nthreads < MaxThreads
    /\ nthreads' = nthreads + 1
    /\ control_thread' = nthreads + 1
    /\ tpc' = [tpc EXCEPT ![nthreads + 1] = "created"]
    /\ cpc' = [cpc EXCEPT ![c] = "start_170"]
    /\ UNCHANGED << running, tlocal, temperature_history, power_reduction,
                    model, accuracy, callers, ret, ticks, opt_arg, opt_ret,
                    thresholds, appended, stats, outside >>

\* line 170: self.control_thread.daemon = True; the setter raises RuntimeError
\* on a Thread object that has been started
start_170(c) ==
    /\ c \in callers
    /\ cpc[c] = "start_170"
    /\ IF is_started(control_thread)
       THEN /\ cpc' = [cpc EXCEPT ![c] = "idle"]
            /\ ret' = [ret EXCEPT ![c] = "RuntimeError"]
       ELSE /\ cpc' = [cpc EXCEPT ![c] = "start_171"]
            /\ ret' = ret
    /\ UNCHANGED << running, control_thread, nthreads, tpc, tlocal,
                    temperature_history, power_reduction, model, accuracy,
                    callers, ticks, opt_arg, opt_ret,
                    thresholds, appended, stats, outside >>

\* lines 171-174: self.control_thread.start(); return True.  Thread.start()
\* raises RuntimeError on a Thread object that has been started
start_171(c) ==
    /\ c \in callers
    /\ cpc[c] = "start_171"
    /\ IF is_started(control_thread)
       THEN /\ ret' = [ret EXCEPT ![c] = "RuntimeError"]
            /\ tpc' = tpc
       ELSE /\ ret' = [ret EXCEPT ![c] = "True"]
            /\ tpc' = [tpc EXCEPT ![control_thread] = "while"]
    /\ cpc' = [cpc EXCEPT ![c] = "idle"]
    /\ UNCHANGED << running, control_thread, nthreads, tlocal,
                    temperature_history, power_reduction, model, accuracy,
                    callers, ticks, opt_arg, opt_ret,
                    thresholds, appended, stats, outside >>

start_thermal_control(c) ==
    \/ start_call(c)
    \/ start_164(c)
    \/ start_168(c)
    \/ start_169(c)
    \/ start_170(c)
    \/ start_171(c)

----------------------------------------------------------------------------
(* stop_thermal_control, executed by caller c *)

\* line 178: self.running = False
stop_178(c) ==
    /\ c \in callers
    /\ cpc[c] = "idle"
    /\ running' = FALSE
    /\ cpc' = [cpc EXCEPT ![c] = "stop_179"]
    /\ UNCHANGED << control_thread, nthreads, tpc, tlocal, temperature_history,
                    power_reduction, model, accuracy, callers, ret, ticks,
                    opt_arg, opt_ret,
                    thresholds, appended, stats, outside >>

\* lines 179-182: if self.control_thread: self.control_thread.join(timeout=5).
\* join returns when the thread has ended or when the 5 seconds are over,
\* whichever comes first; on a Thread object not yet started it raises
\* RuntimeError.  Either way the call ends and changes no field.
stop_179(c) ==
    /\ c \in callers
    /\ cpc[c] = "stop_179"
    /\ cpc' = [cpc EXCEPT ![c] = "idle"]
    /\ UNCHANGED << running, control_thread, nthreads, tpc, tlocal,
                    temperature_history, power_reduction, model, accuracy,
                    callers, ret, ticks, opt_arg, opt_ret,
                    thresholds, appended, stats, outside >>

stop_thermal_control(c) ==
    \/ stop_178(c)
    \/ stop_179(c)

----------------------------------------------------------------------------
(* initialize_ai_model and optimize_cooling_system, called by caller c *)

\* lines 49-85.  fault names the statement of the try block that raises:
\* building the network (line 53, before self.model is bound), compiling it,
\* fitting the scaler or training; "none" is the successful run
initialize_ai_model(c, fault) ==
    /\ c \in callers
    /\ cpc[c] = "idle"
    /\ model' = IF fault = "build" THEN model ELSE "Sequential"
    /\ accuracy' = IF fault = "none" THEN 95 ELSE accuracy
    /\ UNCHANGED << running, control_thread, nthreads, tpc, tlocal,
                    temperature_history, power_reduction, callers, cpc, ret,
                    ticks, opt_arg, opt_ret,
                    thresholds, appended, stats, outside >>

InitFaults ==
    {"none", "build", "compile", "fit_scaler", "train"}

\* variant: the call also moves the target to the temperature it was given
optimize_moves_target(c, predicted_temp) ==
    /\ c \in callers
    /\ cpc[c] = "idle"
    /\ power_reduction' = optimize_result(predicted_temp).power_reduction
    /\ opt_arg' = predicted_temp
    /\ opt_ret' = << optimize_result(predicted_temp) >>
    /\ target_temperature' = predicted_temp
    /\ UNCHANGED << running, control_thread, nthreads, tpc, tlocal,
                    temperature_history, model, accuracy, callers, cpc, ret,
                    ticks, max_temperature, min_temperature, appended, stats,
                    outside >>

\* lines 124-160, called from outside the loop with argument predicted_temp
optimize_cooling_system(c, predicted_temp) ==
    /\ c \in callers
    /\ cpc[c] = "idle"
    /\ power_reduction' = optimize_result(predicted_temp).power_reduction
    /\ opt_arg' = predicted_temp
    /\ opt_ret' = << optimize_result(predicted_temp) >>
    /\ UNCHANGED << running, control_thread, nthreads, tpc, tlocal,
                    temperature_history, model, accuracy, callers, cpc, ret,
                    ticks,
                    thresholds, appended, stats, outside >>

----------------------------------------------------------------------------
(* _thermal_control_loop, executed by Thread object t *)

\* variant: the loop condition ignores self.running
loop_while_true(t) ==
    /\ tpc[t] = "while"
    /\ ticks < MaxTicks
    /\ ticks' = ticks + 1
    /\ tpc' = [tpc EXCEPT ![t] = "predict"]
    /\ UNCHANGED << running, control_thread, nthreads, tlocal,
                    temperature_history, power_reduction, model, accuracy,
                    callers, cpc, ret, opt_arg, opt_ret,
                    thresholds, appended, stats, outside >>

\* line 186: while self.running
loop_while(t) ==
    /\ tpc[t] = "while"
    /\ IF running
       THEN /\ ticks < MaxTicks
            /\ ticks' = ticks + 1
            /\ tpc' = [tpc EXCEPT ![t] = "predict"]
       ELSE /\ ticks' = ticks
            /\ tpc' = [tpc EXCEPT ![t] = "dead"]
    /\ UNCHANGED << running, control_thread, nthreads, tlocal,
                    temperature_history, power_reduction, model, accuracy,
                    callers, cpc, ret, opt_arg, opt_ret,
                    thresholds, appended, stats, outside >>

\* The outcomes of predict_thermal_behavior (lines 87-115) for one reading:
\* << raw model output or Unset, returned temperature >>.  Without a model, or
\* when scaling or model.predict raises, the fallback is returned.
predictions(current_temp, usage) ==
    { << Unset, _fallback_prediction(current_temp, usage[1], usage[2]) >> }
    \cup
    IF model = "None"
    THEN {}
    ELSE { << raw, clamp_prediction(raw) >> : raw \in RawPredictions }

\* lines 189-198: the simulated readings and the prediction; a fault that
\* escapes predict_thermal_behavior goes to the handler of line 215
loop_predict(t) ==
    /\ tpc[t] = "predict"
    /\ \E current_temp \in CurrentTemps, usage \in UsagePairs, fault \in BOOLEAN :
          IF fault
          THEN /\ tpc' = [tpc EXCEPT ![t] = "except"]
               /\ tlocal' = [tlocal EXCEPT ![t].current_temp = current_temp]
          ELSE \E p \in predictions(current_temp, usage) :
                 /\ tpc' = [tpc EXCEPT ![t] = "optimize"]
                 /\ tlocal' = [tlocal EXCEPT ![t].current_temp = current_temp,
                                             ![t].raw_prediction = p[1],
                                             ![t].predicted_temp = p[2]]
    /\ UNCHANGED << running, control_thread, nthreads, temperature_history,
                    power_reduction, model, accuracy, callers, cpc, ret, ticks,
                    opt_arg, opt_ret,
                    thresholds, appended, stats, outside >>

\* Where a fault may strike in lines 201-206: nowhere; inside
\* optimize_cooling_system before or after it assigns self.power_reduction
\* (caught at line 158, None is returned); in the debug logging of the loop
OptimizeFaults ==
    {"none", "before_assign", "after_assign", "log"}

\* variant: a prediction at max_temperature clears the flag and ends the loop
loop_optimize_emergency_stop(t) ==
    /\ tpc[t] = "optimize"
    /\ LET result == optimize_result(tlocal[t].predicted_temp)
           emergency == tlocal[t].predicted_temp >= max_temperature
       IN  /\ power_reduction' = result.power_reduction
           /\ tlocal' = [tlocal EXCEPT ![t].optimization = << result >>]
           /\ running' = IF emergency THEN FALSE ELSE running
           /\ tpc' = [tpc EXCEPT ![t] = IF emergency THEN "dead" ELSE "append"]
    /\ UNCHANGED << control_thread, nthreads, temperature_history,
                    model, accuracy, callers, cpc, ret, ticks, opt_arg, opt_ret,
                    thresholds, appended, stats, outside >>

\* lines 201-206: optimization = self.optimize_cooling_system(predicted_temp)
loop_optimize(t) ==
    /\ tpc[t] = "optimize"
    /\ \E fault \in OptimizeFaults :
          LET result == optimize_result(tlocal[t].predicted_temp)
          IN  /\ power_reduction' =
                    IF fault = "before_assign" THEN power_reduction
                    ELSE result.power_reduction
              /\ tlocal' = [tlocal EXCEPT ![t].optimization =
                    IF fault \in {"before_assign", "after_assign"}
                    THEN NoOptimization ELSE << result >>]
              /\ tpc' = [tpc EXCEPT ![t] =
                    IF fault = "log" THEN "except" ELSE "append"]
    /\ UNCHANGED << running, control_thread, nthreads, temperature_history,
                    model, accuracy, callers, cpc, ret, ticks, opt_arg, opt_ret,
                    thresholds, appended, stats, outside >>

\* line 209: self.temperature_history.append(current_temp)
loop_append(t) ==
    /\ tpc[t] = "append"
    /\ \E fault \in BOOLEAN :
          IF fault
          THEN /\ tpc' = [tpc EXCEPT ![t] = "except"]
               /\ temperature_history' = temperature_history
               /\ appended' = appended
          ELSE /\ tpc' = [tpc EXCEPT ![t] = "evict"]
               /\ temperature_history' =
                     Append(temperature_history, tlocal[t].current_temp)
               /\ appended' = Append(appended, tlocal[t].current_temp)
    /\ UNCHANGED << running, control_thread, nthreads, tlocal, power_reduction,
                    model, accuracy, callers, cpc, ret, ticks, opt_arg, opt_ret,
                    thresholds, stats, outside >>

\* a loop that drops the newest reading instead of the oldest
loop_evict_newest(t) ==
    /\ tpc[t] = "evict"
    /\ temperature_history' =
          IF Len(temperature_history) > HistoryLimit
          THEN SubSeq(temperature_history, 1, Len(temperature_history) - 1)
          ELSE temperature_history
    /\ tpc' = [tpc EXCEPT ![t] = "while"]
    /\ tlocal' = [tlocal EXCEPT ![t] = NoLocals]
    /\ UNCHANGED << running, control_thread, nthreads, power_reduction,
                    model, accuracy, callers, cpc, ret, ticks, opt_arg, opt_ret,
                    thresholds, appended, stats, outside >>

\* lines 210-213: if len(self.temperature_history) > 100: pop(0); then
\* time.sleep(1) and back to the loop condition
loop_evict(t) ==
    /\ tpc[t] = "evict"
    /\ temperature_history' =
          IF Len(temperature_history) > HistoryLimit
          THEN Tail(temperature_history) ELSE temperature_history
    /\ tpc' = [tpc EXCEPT ![t] = "while"]
    /\ tlocal' = [tlocal EXCEPT ![t] = NoLocals]
    /\ UNCHANGED << running, control_thread, nthreads, power_reduction,
                    model, accuracy, callers, cpc, ret, ticks, opt_arg, opt_ret,
                    thresholds, appended, stats, outside >>

\* variant: the handler leaves the loop
exit_on_fault(t) ==
    /\ tpc[t] = "except"
    /\ tpc' = [tpc EXCEPT ![t] = "dead"]
    /\ tlocal' = [tlocal EXCEPT ![t] = NoLocals]
    /\ UNCHANGED << running, control_thread, nthreads, temperature_history,
                    power_reduction, model, accuracy, callers, cpc, ret, ticks,
                    opt_arg, opt_ret,
                    thresholds, appended, stats, outside >>

\* lines 215-217: except Exception: log, time.sleep(1), and loop again
loop_except(t) ==
    /\ tpc[t] = "except"
    /\ tpc' = [tpc EXCEPT ![t] = "while"]
    /\ tlocal' = [tlocal EXCEPT ![t] = NoLocals]
    /\ UNCHANGED << running, control_thread, nthreads, temperature_history,
                    power_reduction, model, accuracy, callers, cpc, ret, ticks,
                    opt_arg, opt_ret,
                    thresholds, appended, stats, outside >>

_thermal_control_loop(t) ==
    \/ loop_while(t)
    \/ loop_predict(t)
    \/ loop_optimize(t)
    \/ loop_append(t)
    \/ loop_evict(t)
    \/ loop_except(t)

----------------------------------------------------------------------------
(* get_thermal_stats, executed by caller c.  The dict display reads the     *)
(* fields one after the other; the loop thread may run in between.          *)

\* list[-n:], a new list holding the last n entries (all of them if fewer)
last_slice(list, n) ==
    IF Len(list) <= n THEN list
    ELSE SubSeq(list, Len(list) - n + 1, Len(list))

\* list[:n], a new list holding the first n entries
first_slice(list, n) ==
    IF Len(list) <= n THEN list ELSE SubSeq(list, 1, n)

\* lines 221-223: the call begins and reads power_reduction and accuracy
stats_222(c) ==
    /\ c \in callers
    /\ cpc[c] = "idle"
    /\ cpc' = [cpc EXCEPT ![c] = "stats_224"]
    /\ stats' = [stats EXCEPT ![c] =
                   << [power_reduction |-> power_reduction,
                       accuracy |-> accuracy,
                       temperature_history |-> << >>,
                       model_initialized |-> FALSE,
                       control_running |-> FALSE,
                       shares_list |-> FALSE,
                       returned |-> FALSE] >>]
    /\ UNCHANGED << running, control_thread, nthreads, tpc, tlocal,
                    temperature_history, power_reduction, model, accuracy,
                    callers, ret, ticks, opt_arg, opt_ret, thresholds,
                    appended, outside >>

\* a get_thermal_stats that reports the oldest readings
stats_224_oldest(c) ==
    /\ c \in callers
    /\ cpc[c] = "stats_224"
    /\ cpc' = [cpc EXCEPT ![c] = "idle"]
    /\ stats' = [stats EXCEPT ![c] =
                   << [stats[c][1] EXCEPT
                         !.temperature_history =
                            first_slice(temperature_history, RecentReadings),
                         !.model_initialized = (model # "None"),
                         !.control_running = running,
                         !.returned = TRUE] >>]
    /\ UNCHANGED << running, control_thread, nthreads, tpc, tlocal,
                    temperature_history, power_reduction, model, accuracy,
                    callers, ret, ticks, opt_arg, opt_ret, thresholds,
                    appended, outside >>

\* a get_thermal_stats that hands out self.temperature_history itself
stats_224_no_copy(c) ==
    /\ c \in callers
    /\ cpc[c] = "stats_224"
    /\ cpc' = [cpc EXCEPT ![c] = "idle"]
    /\ stats' = [stats EXCEPT ![c] =
                   << [stats[c][1] EXCEPT
                         !.temperature_history = temperature_history,
                         !.model_initialized = (model # "None"),
                         !.control_running = running,
                         !.shares_list = TRUE,
                         !.returned = TRUE] >>]
    /\ UNCHANGED << running, control_thread, nthreads, tpc, tlocal,
                    temperature_history, power_reduction, model, accuracy,
                    callers, ret, ticks, opt_arg, opt_ret, thresholds,
                    appended, outside >>

\* lines 224-227: the slice [-10:] builds a new list; model is not None and
\* running are read, and the dict is returned
stats_224(c) ==
    /\ c \in callers
    /\ cpc[c] = "stats_224"
    /\ cpc' = [cpc EXCEPT ![c] = "idle"]
    /\ stats' = [stats EXCEPT ![c] =
                   << [stats[c][1] EXCEPT
                         !.temperature_history =
                            last_slice(temperature_history, RecentReadings),
                         !.model_initialized = (model # "None"),
                         !.control_running = running,
                         !.returned = TRUE] >>]
    /\ UNCHANGED << running, control_thread, nthreads, tpc, tlocal,
                    temperature_history, power_reduction, model, accuracy,
                    callers, ret, ticks, opt_arg, opt_ret, thresholds,
                    appended, outside >>

get_thermal_stats(c) ==
    \/ stats_222(c)
    \/ stats_224(c)

\* The caller empties the list it was handed (stats['temperature_history']
\* .clear()).  A list object shared with the instance is emptied for both.
clear_returned_list(c) ==
    /\ c \in callers
    /\ cpc[c] = "idle"
    /\ stats[c] # NoStats
    /\ stats[c][1].temperature_history # << >>
    /\ stats' = [stats EXCEPT ![c] =
                   << [stats[c][1] EXCEPT !.temperature_history = << >>] >>]
    /\ temperature_history' =
          IF stats[c][1].shares_list THEN << >> ELSE temperature_history
    /\ UNCHANGED << running, control_thread, nthreads, tpc, tlocal,
                    power_reduction, model, accuracy, callers, cpc, ret, ticks,
                    opt_arg, opt_ret, thresholds, appended, outside >>

----------------------------------------------------------------------------
(* Specifications *)

Next ==
    \/ \E c \in AllCallers : start_thermal_control(c)
    \/ \E c \in AllCallers : stop_thermal_control(c)
    \/ \E c \in AllCallers, fault \in InitFaults : initialize_ai_model(c, fault)
    \/ \E c \in AllCallers, predicted_temp \in CallerTemps :
          optimize_cooling_system(c, predicted_temp)
    \/ \E t \in Threads : _thermal_control_loop(t)

\* the calls and the loop that decide how many loops run
NextRace ==
    \/ \E c \in AllCallers : start_thermal_control(c)
    \/ \E c \in AllCallers : stop_thermal_control(c)
    \/ \E t \in Threads : _thermal_control_loop(t)

\* One application thread calls the instance
Spec ==
    Init /\ [][Next]_vars

\* Two application threads call the instance concurrently
SpecRace ==
    InitRace /\ [][NextRace]_vars

\* optimize_cooling_system applied to every argument of TempRange
NextOpt ==
    \E c \in AllCallers, predicted_temp \in TempRange :
       optimize_cooling_system(c, predicted_temp)

SpecOpt ==
    Init /\ [][NextOpt]_vars

\* Arguments of direct optimize_cooling_system calls on both sides of
\* target_temperature and on both sides of the point (87 degrees) where
\* power_reduction reaches its cap
PowerTemps ==
    {75 * Scale, 76 * Scale, 87 * Scale, 95 * Scale}

\* control ticks interleaved with direct optimize_cooling_system calls
NextPower ==
    \/ \E c \in AllCallers : start_thermal_control(c)
    \/ \E c \in AllCallers : stop_thermal_control(c)
    \/ \E c \in AllCallers, fault \in InitFaults : initialize_ai_model(c, fault)
    \/ \E c \in AllCallers, predicted_temp \in PowerTemps :
          optimize_cooling_system(c, predicted_temp)
    \/ \E t \in Threads : _thermal_control_loop(t)

SpecPower ==
    Init /\ [][NextPower]_vars

\* The scheduler lets every live loop thread run
Fairness ==
    \A t \in Threads : WF_vars(_thermal_control_loop(t))

SpecFair ==
    Init /\ [][Next]_vars /\ Fairness

\* The readings of the ticks a loop completed before the state InitHist
PastReadings(n) ==
    [i \in 1 .. n |-> IF i % 3 = 0 THEN 80 * Scale ELSE 40 * Scale]

\* A loop started on a fresh instance has completed HistoryLimit - 1 or
\* HistoryLimit ticks and is about to test the loop condition again
InitHist ==
    /\ running = TRUE
    /\ control_thread = 1
    /\ nthreads = 1
    /\ tpc = [t \in Threads |-> IF t = 1 THEN "while" ELSE "unborn"]
    /\ tlocal = [t \in Threads |-> NoLocals]
    /\ \E n \in {HistoryLimit - 1, HistoryLimit} :
          /\ temperature_history = PastReadings(n)
          /\ appended = PastReadings(n)
    /\ power_reduction = 0
    /\ model = "None"
    /\ accuracy = 0
    /\ callers = {1}
    /\ cpc = [c \in AllCallers |-> "idle"]
    /\ ret = [c \in AllCallers |-> IF c = 1 THEN "True" ELSE "none"]
    /\ ticks = 0
    /\ opt_arg = Unset
    /\ opt_ret = NoOptimization
    /\ target_temperature = 75 * Scale
    /\ max_temperature = 85 * Scale
    /\ min_temperature = 30 * Scale
    /\ stats = [c \in AllCallers |-> NoStats]
    /\ AlgoIdle
    /\ ScriptIdle

\* the loop, the statistics query and the stop call; ticks counts the
\* iterations begun after InitHist
NextHist ==
    \/ \E t \in Threads : _thermal_control_loop(t)
    \/ \E c \in AllCallers : get_thermal_stats(c)
    \/ \E c \in AllCallers : clear_returned_list(c)
    \/ \E c \in AllCallers : stop_thermal_control(c)

\* A long-running loop whose history is about to reach its limit
SpecHist ==
    InitHist /\ [][NextHist]_vars

----------------------------------------------------------------------------
(* python_dsa/algorithms.py: quick_sort, binary_search and the test code    *)
(* that sorts a list and searches the result.  Python lists are indexed     *)
(* from 0, sequences from 1: arr[i] is written arr[i + 1].                  *)

\* the numbers a list may hold (three of the test list) and the numbers
\* looked for, some of which are in no list
ListValues ==
    {11, 25, 64}
Targets ==
    {5, 11, 25, 50, 64, 90}
Lists ==
    UNION { [1 .. n -> ListValues] : n \in 0 .. MaxLen }

\* [x for x in arr if keep(x)], for the three comparisons of lines 17-19
smaller(arr, pivot) ==
    SelectSeq(arr, LAMBDA x : x < pivot)
equal(arr, pivot) ==
    SelectSeq(arr, LAMBDA x : x = pivot)
greater(arr, pivot) ==
    SelectSeq(arr, LAMBDA x : x > pivot)

\* variant: the pivot is kept once, whatever number of times it occurs
RECURSIVE quick_sort_one_pivot(_)
quick_sort_one_pivot(arr) ==
    IF Len(arr) <= 1 THEN arr
    ELSE LET pivot == arr[(Len(arr) \div 2) + 1]
         IN  quick_sort_one_pivot(smaller(arr, pivot)) \o << pivot >>
                \o quick_sort_one_pivot(greater(arr, pivot))

\* lines 11-21
RECURSIVE quick_sort(_)
quick_sort(arr) ==
    IF Len(arr) <= 1 THEN arr
    ELSE LET pivot == arr[(Len(arr) \div 2) + 1]
         IN  quick_sort(smaller(arr, pivot)) \o equal(arr, pivot)
                \o quick_sort(greater(arr, pivot))

\* line 41: sorted_array = quick_sort(test_array); the comprehensions and
\* the concatenation build new lists, test_array is not assigned to
main_41 ==
    /\ apc = "line_41"
    /\ sorted_array' = quick_sort(test_array)
    /\ apc' = "line_45"
    /\ UNCHANGED << test_array, target, left, right, index >>
    /\ UNCHANGED << thermal_vars, script_vars >>

\* lines 45 and 25: binary_search(sorted_array, target) is entered
binary_search_25 ==
    /\ apc = "line_45"
    /\ left' = 0
    /\ right' = Len(sorted_array) - 1
    /\ apc' = "line_27"
    /\ UNCHANGED << test_array, sorted_array, target, index >>
    /\ UNCHANGED << thermal_vars, script_vars >>

\* variant: the loop runs while left < right
binary_search_27_exclusive ==
    /\ apc = "line_27"
    /\ IF left < right
       THEN LET mid == (left + right) \div 2
            IN  IF sorted_array[mid + 1] = target
                THEN /\ index' = mid
                     /\ apc' = "done"
                     /\ UNCHANGED << left, right >>
                ELSE IF sorted_array[mid + 1] < target
                THEN /\ left' = mid + 1
                     /\ UNCHANGED << right, index, apc >>
                ELSE /\ right' = mid - 1
                     /\ UNCHANGED << left, index, apc >>
       ELSE /\ index' = 0 - 1
            /\ apc' = "done"
            /\ UNCHANGED << left, right >>
    /\ UNCHANGED << test_array, sorted_array, target >>
    /\ UNCHANGED << thermal_vars, script_vars >>

\* lines 27-36: one test of the loop condition and, if it holds, one
\* iteration; return mid or -1
binary_search_27 ==
    /\ apc = "line_27"
    /\ IF left <= right
       THEN LET mid == (left + right) \div 2
            IN  IF sorted_array[mid + 1] = target
                THEN /\ index' = mid
                     /\ apc' = "done"
                     /\ UNCHANGED << left, right >>
                ELSE IF sorted_array[mid + 1] < target
                THEN /\ left' = mid + 1
                     /\ UNCHANGED << right, index, apc >>
                ELSE /\ right' = mid - 1
                     /\ UNCHANGED << left, index, apc >>
       ELSE /\ index' = 0 - 1
            /\ apc' = "done"
            /\ UNCHANGED << left, right >>
    /\ UNCHANGED << test_array, sorted_array, target >>
    /\ UNCHANGED << thermal_vars, script_vars >>

\* the test code is about to sort a list and to look for a number
InitAlgo ==
    /\ test_array \in Lists
    /\ sorted_array = << >>
    /\ target \in Targets
    /\ left = 0
    /\ right = 0
    /\ index = Unset
    /\ apc = "line_41"
    /\ InitFields
    /\ callers = {1}
    /\ ScriptIdle

NextAlgo ==
    \/ main_41
    \/ binary_search_25
    \/ binary_search_27

\* The interpreter keeps executing the one thread of the test code
SpecAlgo ==
    InitAlgo /\ [][NextAlgo]_vars /\ WF_vars(NextAlgo)

----------------------------------------------------------------------------
(* create_clean_simple.py and create_perfect_portfolio.py: each writes a    *)
(* file, sets the two git dates in the environment, runs git add and git    *)
(* commit, file after file, and ends with a git log query.                  *)

Scripts ==
    {"create_clean_simple", "create_perfect_portfolio"}

\* datetime(2023, 12, 20, 9, 0, 0); only whole days are ever added, so the
\* time of day stays 09:00:00 and a date is << year, month, day >>
start_date ==
    << 2023, 12, 20 >>

\* range(20), the loop of create_clean_simple
CleanSimpleCommits ==
    20

is_leap(year) ==
    year % 4 = 0 /\ (year % 100 # 0 \/ year % 400 = 0)

days_in_month(year, month) ==
    IF month = 2 THEN (IF is_leap(year) THEN 29 ELSE 28)
    ELSE IF month \in {4, 6, 9, 11} THEN 30 ELSE 31

\* the calendar date n days after the date << year, month, day >>
RECURSIVE date_plus(_, _)
date_plus(date, n) ==
    LET year == date[1]
        month == date[2]
        day == date[3]
        rest == days_in_month(year, month) - day
    IN  IF n <= rest THEN << year, month, day + n >>
        ELSE IF month = 12
        THEN date_plus(<< year + 1, 1, 1 >>, n - rest - 1)
        ELSE date_plus(<< year, month + 1, 1 >>, n - rest - 1)

\* (start_date + timedelta(days)).strftime("%Y-%m-%d %H:%M:%S")
strftime(days) ==
    date_plus(start_date, days)

\* One file and its commit: the file written, the days added to
\* current_date before the file is written and after it is committed
Unit(file, before, after) ==
    [file |-> file, before |-> before, after |-> after]

\* create_clean_simple: README.md at start_date, current_date set to
\* start_date + 30 days, then 20 files, each after 30 more days
clean_simple_plan ==
    << Unit("README.md", 0, 30) >> \o
    [i \in 1 .. CleanSimpleCommits |-> Unit(<< "commit.txt", i >>, 30, 0)]

\* create_perfect_portfolio: README.md at start_date, current_date set to
\* start_date + 25 days, the DMA driver and 25 days, six Python files with
\* 20 days after each, four C++ files with 25 days after each, the firmware
\* core file
perfect_portfolio_plan ==
    << Unit("README.md", 0, 25),
       Unit("device_drivers/zero_copy_dma.c", 0, 25) >> \o
    [i \in 1 .. 6 |-> Unit(<< "python_dsa", i >>, 0, 20)] \o
    [i \in 1 .. 4 |-> Unit(<< "cpp_advanced", i >>, 0, 25)] \o
    << Unit("firmware_core/firmware_architecture.c", 0, 0) >>

plan ==
    IF script = "create_clean_simple" THEN clean_simple_plan
    ELSE perfect_portfolio_plan

\* The next file is written and env gets the two dates; open() may raise,
\* which nothing catches
script_write ==
    /\ spc = "write"
    /\ \E fault \in BOOLEAN :
          IF fault
          THEN /\ failed' = "open"
               /\ exit_code' = 1
               /\ spc' = "exited"
               /\ UNCHANGED << unit, current_date, environ, files >>
          ELSE LET date == current_date + plan[unit + 1].before
               IN  /\ unit' = unit + 1
                   /\ current_date' = date
                   /\ files' = Append(files, plan[unit + 1].file)
                   /\ environ' = [GIT_COMMITTER_DATE |-> strftime(date),
                                  GIT_AUTHOR_DATE |-> strftime(date)]
                   /\ spc' = "add"
                   /\ UNCHANGED << failed, exit_code >>
    /\ UNCHANGED << script, commits, log_result >>
    /\ UNCHANGED << thermal_vars, algo_vars >>

\* variant: git add is run without check=True, a failure goes unnoticed
script_add_unchecked ==
    /\ spc = "add"
    /\ \E ok \in BOOLEAN :
          /\ failed' = IF ok THEN failed ELSE "add"
          /\ spc' = "commit"
    /\ UNCHANGED << script, unit, current_date, environ, files, commits,
                    log_result, exit_code >>
    /\ UNCHANGED << thermal_vars, algo_vars >>

\* subprocess.run('git add ...', check=True): a failing git raises
\* CalledProcessError, which nothing catches
script_add ==
    /\ spc = "add"
    /\ \E ok \in BOOLEAN :
          IF ok
          THEN /\ spc' = "commit"
               /\ UNCHANGED << failed, exit_code >>
          ELSE /\ failed' = "add"
               /\ exit_code' = 1
               /\ spc' = "exited"
    /\ UNCHANGED << script, unit, current_date, environ, files, commits,
                    log_result >>
    /\ UNCHANGED << thermal_vars, algo_vars >>

\* subprocess.run('git commit ...', env=env, check=True), then the days
\* added to current_date before the next file
script_commit ==
    /\ spc = "commit"
    /\ \E ok \in BOOLEAN :
          IF ok
          THEN /\ commits' = Append(commits,
                                [file |-> plan[unit].file,
                                 author_date |-> environ.GIT_AUTHOR_DATE,
                                 committer_date |-> environ.GIT_COMMITTER_DATE])
               /\ current_date' = current_date + plan[unit].after
               /\ spc' = IF unit = Len(plan) THEN "log" ELSE "write"
               /\ UNCHANGED << failed, exit_code >>
          ELSE /\ failed' = "commit"
               /\ exit_code' = 1
               /\ spc' = "exited"
               /\ UNCHANGED << commits, current_date >>
    /\ UNCHANGED << script, unit, environ, files, log_result >>
    /\ UNCHANGED << thermal_vars, algo_vars >>

\* result = run_git_command("git log ..."): CalledProcessError is caught and
\* None returned; result is printed and the script ends
script_log ==
    /\ spc = "log"
    /\ \E ok \in BOOLEAN :
          /\ log_result' = IF ok THEN "timeline" ELSE "None"
          /\ failed' = IF ok THEN failed ELSE "log"
    /\ exit_code' = 0
    /\ spc' = "exited"
    /\ UNCHANGED << script, unit, current_date, environ, files, commits >>
    /\ UNCHANGED << thermal_vars, algo_vars >>

\* one of the two scripts is started in a repository
InitScript ==
    /\ script \in Scripts
    /\ spc = "write"
    /\ unit = 0
    /\ current_date = 0
    /\ environ = NoDates
    /\ files = << >>
    /\ commits = << >>
    /\ failed = "none"
    /\ log_result = "unset"
    /\ exit_code = Unset
    /\ InitFields
    /\ callers = {1}
    /\ AlgoIdle

NextScript ==
    \/ script_write
    \/ script_add
    \/ script_commit
    \/ script_log

SpecScript ==
    InitScript /\ [][NextScript]_vars

----------------------------------------------------------------------------
(* The claims *)

\* The step in which caller c's start_thermal_control evaluates line 164
StartDecides(c) ==
    cpc[c] = "start_164" /\ cpc'[c] # "start_164"

\* C1: a start_thermal_control call that finds a control loop running returns
\* False, creates no thread and leaves running, control_thread, the threads,
\* temperature_history and power_reduction as they were (one calling thread;
\* C2 is about callers that race).
C1_StartWhileRunningIsNoOp ==
    [][ \A c \in callers :
          (StartDecides(c) /\ LoopAlive) =>
             /\ ret'[c] = "False"
             /\ cpc'[c] = "idle"
             /\ UNCHANGED << running, control_thread, nthreads, tpc,
                             temperature_history, power_reduction,
                    thresholds, appended, stats, outside >> ]_vars

\* a start has been rejected while the loop is running
C1_Witness ==
    \E c \in callers :
       ret[c] = "False" /\ cpc[c] = "idle" /\ running /\ LoopAlive

\* C2: in every reachable state at most one _thermal_control_loop thread of
\* the instance is alive, also when two start calls race.
C2_AtMostOneLoop ==
    Cardinality(AliveThreads) <= 1

C4_StopIsCooperative ==
    /\ [][ \A c \in callers :
              (cpc[c] = "idle" /\ cpc'[c] = "stop_179") => ~running' ]_vars
    /\ (~running) ~> (running \/ ~LoopAlive)

\* stop_thermal_control has returned (its join timed out) and the loop thread
\* is still inside a control tick
C4_Witness ==
    /\ ~running
    /\ \A c \in callers : cpc[c] = "idle"
    /\ \E t \in Threads : tpc[t] \in {"predict", "optimize", "append", "evict", "except"}

\* C5: a fault in a control tick is caught: the thread goes through the
\* handler back to the loop condition, stays alive, the running flag is not
\* changed by it, and as long as running stays True (and the model's tick
\* budget MaxTicks is not used up) the loop starts a later tick.
C5_FaultsAreCaught ==
    /\ [][ \A t \in Threads :
              /\ (tpc[t] # "except" /\ tpc'[t] = "except") =>
                    (tpc[t] \in {"predict", "optimize", "append"} /\ running' = running)
              /\ (tpc[t] = "except" /\ tpc'[t] # "except") =>
                    (tpc'[t] = "while" /\ running' = running) ]_vars
    /\ (\E t \in Threads : tpc[t] = "except")
          ~> (\/ \E t \in Threads : tpc[t] = "predict"
              \/ ~running
              \/ ticks = MaxTicks)

\* a tick faulted without storing its reading, a later tick was started and
\* has faulted as well
C5_Witness ==
    \E t \in Threads :
       tpc[t] = "except" /\ ticks = 2 /\ temperature_history = << >> /\ running

C8_NoCoolingUpToTarget ==
    (opt_arg # Unset /\ opt_arg <= target_temperature) =>
       /\ opt_ret # NoOptimization
       /\ opt_ret[1].fan_speed_increase = 0
       /\ opt_ret[1].cooling_power = 0
       /\ opt_ret[1].power_reduction = 0
       /\ power_reduction = 0

\* optimize_cooling_system has been called with exactly target_temperature
C8_Witness ==
    opt_arg = target_temperature /\ opt_ret # NoOptimization

\* The band function of section 4.1 for thresholds warning w, critical c and
\* emergency e: whether f is the fan speed it gives for temperature x
BandFanSpeed(w, c, e, x, f) ==
    IF x < w THEN f = 0
    ELSE IF x < c THEN f * (c - w) = 30 * Scale * (c - w) + 30 * Scale * (x - w)
    ELSE IF x < e THEN f * (e - c) = 60 * Scale * (e - c) + 30 * Scale * (x - c)
    ELSE f = 100 * Scale

C10_FanMonotone ==
    [][ (opt_arg # Unset /\ opt_arg' # Unset) =>
          /\ opt_arg <= opt_arg' =>
                /\ opt_ret[1].fan_speed_increase <= opt_ret'[1].fan_speed_increase
                /\ opt_ret[1].cooling_power <= opt_ret'[1].cooling_power
          /\ opt_arg >= opt_arg' =>
                /\ opt_ret[1].fan_speed_increase >= opt_ret'[1].fan_speed_increase
                /\ opt_ret[1].cooling_power >= opt_ret'[1].cooling_power ]_vars

\* a call in the rising part of the response, where a lower argument gives a
\* strictly lower fan response
C10_Witness ==
    /\ opt_arg > target_temperature
    /\ opt_ret # NoOptimization
    /\ opt_ret[1].fan_speed_increase > 0
    /\ opt_ret[1].fan_speed_increase < 50 * Scale

----------------------------------------------------------------------------
(* The history of readings and the statistics query *)

\* list h holds exactly the last Len(h) entries of list all, in their order
IsTailOf(h, all) ==
    /\ Len(h) <= Len(all)
    /\ \A i \in 1 .. Len(h) : h[i] = all[Len(all) - Len(h) + i]

\* no loop thread stands between the append of line 209 and the test of
\* line 210
TickComplete ==
    \A t \in Threads : tpc[t] # "evict"

\* C11: after every completed control tick temperature_history holds at most
\* 100 entries, and they are exactly the last min(k, 100) of the k readings
\* the completed ticks stored, in arrival order (the oldest are evicted).
C11_HistoryIsLastHundred ==
    TickComplete =>
       /\ Len(temperature_history) <= 100
       /\ Len(temperature_history) = Min(Len(appended), 100)
       /\ IsTailOf(temperature_history, appended)

\* a tick has completed in which the oldest reading was evicted
C11_Witness ==
    /\ TickComplete
    /\ Len(appended) > 100
    /\ Len(temperature_history) = 100
    /\ appended[Len(appended)] = 80 * Scale

\* The step in which caller c's get_thermal_stats takes the slice of line 224
\* and returns
StatsReturns(c) ==
    cpc[c] = "stats_224" /\ cpc'[c] = "idle"

\* C13: the temperature_history a get_thermal_stats call returns holds at
\* most 10 entries, the most recent readings appended so far in arrival
\* order, at whatever point of an in-flight tick the call runs, the point
\* between the loop's append and its eviction included.
C13_SnapshotIsLastTen ==
    [][ \A c \in callers :
          StatsReturns(c) =>
             LET h == stats'[c][1].temperature_history
             IN  /\ Len(h) <= 10
                 /\ Len(h) = Min(Len(appended), 10)
                 /\ IsTailOf(h, appended) ]_vars

\* a snapshot was taken while the history held 101 entries, between the
\* append and the eviction of a tick
C13_Witness ==
    /\ \E t \in Threads : tpc[t] = "evict"
    /\ Len(temperature_history) = 101
    /\ stats[1] # NoStats
    /\ stats[1][1].returned
    /\ Len(stats[1][1].temperature_history) = 10
    /\ stats[1][1].temperature_history[10] = appended[Len(appended)]
    /\ Len(appended) > 101

\* The step in which caller c runs a part of get_thermal_stats
StatsStep(c) ==
    \/ cpc[c] = "idle" /\ cpc'[c] = "stats_224"
    \/ StatsReturns(c)

\* The step in which caller c changes the list a get_thermal_stats call
\* returned to it
ReturnedListChanges(c) ==
    /\ cpc[c] = "idle"
    /\ cpc'[c] = "idle"
    /\ stats[c] # NoStats
    /\ stats'[c] # stats[c]

\* C14: get_thermal_stats is read-only: it changes none of running,
\* control_thread, model, power_reduction, accuracy and temperature_history,
\* and a later change of the list it returned does not change the
\* instance's temperature_history (the slice is a copy).
C14_StatsIsReadOnly ==
    [][ \A c \in callers :
          /\ StatsStep(c) =>
                UNCHANGED << running, control_thread, model, power_reduction,
                             accuracy, temperature_history >>
          /\ ReturnedListChanges(c) =>
                temperature_history' = temperature_history ]_vars

\* the caller has emptied the list it was handed while the instance still
\* holds its readings
C14_Witness ==
    /\ stats[1] # NoStats
    /\ stats[1][1].returned
    /\ stats[1][1].temperature_history = << >>
    /\ Len(temperature_history) >= 100
    /\ cpc[1] = "idle"

----------------------------------------------------------------------------
(* Who writes the shared fields, the thresholds, the range of temperatures *)

\* A step taken by a thread running _thermal_control_loop
LoopThreadStep ==
    \E t \in Threads : tpc'[t] # tpc[t]

\* C12: while a control loop is running, power_reduction and
\* temperature_history are written only by the loop thread: no call of the
\* caller (start, stop, the status query, predict_thermal_behavior,
\* optimize_cooling_system) changes them.
C12_OnlyLoopWrites ==
    [][ (LoopAlive /\ ~LoopThreadStep) =>
           UNCHANGED << power_reduction, temperature_history >> ]_vars

\* C15: min_temperature < target_temperature < max_temperature (warning <
\* critical < emergency) in every reachable state, and no operation changes
\* any of the three.
C15_ThresholdsOrdered ==
    /\ [](min_temperature < target_temperature
          /\ target_temperature < max_temperature)
    /\ [][UNCHANGED << min_temperature, target_temperature,
                       max_temperature >>]_vars

\* the thresholds are 30 < 75 < 85 after the model was initialised, a direct
\* optimize_cooling_system call was made and a loop has stored a reading
C15_Witness ==
    /\ min_temperature = 30 * Scale
    /\ target_temperature = 75 * Scale
    /\ max_temperature = 85 * Scale
    /\ model # "None"
    /\ opt_arg = 86 * Scale
    /\ temperature_history # << >>

InRange(x) ==
    20 * Scale <= x /\ x <= 85 * Scale

\* C16: every reading stored in temperature_history and every value
\* predict_thermal_behavior returns to the loop (from the model, from the
\* fallback without a model, from the fallback after an exception) lies in
\* [20, 85].
C16_TemperaturesInRange ==
    /\ \A i \in 1 .. Len(temperature_history) : InRange(temperature_history[i])
    /\ \A t \in Threads :
          tlocal[t].predicted_temp # Unset => InRange(tlocal[t].predicted_temp)

\* a model output of 20 degrees came back as 30, and a reading is stored
C16_Witness ==
    /\ temperature_history # << >>
    /\ \E t \in Threads :
          /\ tlocal[t].raw_prediction = 20 * Scale
          /\ tlocal[t].predicted_temp = 30 * Scale

----------------------------------------------------------------------------
(* python_dsa/algorithms.py *)

IsSorted(arr) ==
    \A i \in 1 .. Len(arr) - 1 : arr[i] <= arr[i + 1]

Occurrences(arr, x) ==
    Cardinality({ i \in 1 .. Len(arr) : arr[i] = x })

IsPermutation(a, b) ==
    /\ Len(a) = Len(b)
    /\ \A x \in ListValues : Occurrences(a, x) = Occurrences(b, x)

\* C17: for every input list, duplicates and the empty list included,
\* quick_sort returns a non-decreasing permutation of the input and leaves
\* the input list as it was.
C17_QuickSortSorts ==
    [][ apc = "line_41" =>
          /\ IsSorted(sorted_array')
          /\ IsPermutation(sorted_array', test_array)
          /\ test_array' = test_array ]_vars

\* a list with a repeated number that was not in order has been sorted
C17_Witness ==
    /\ apc = "line_45"
    /\ test_array = << 64, 25, 64, 11 >>
    /\ sorted_array = << 11, 25, 64, 64 >>

Present(arr, x) ==
    \E i \in 1 .. Len(arr) : arr[i] = x

\* C18: on a sorted list binary_search terminates; it returns an index i with
\* arr[i] = target when target is in the list and -1 exactly when it is not
\* (the empty list included); applied to quick_sort(arr) it finds every
\* element of arr.
C18_BinarySearchFinds ==
    /\ [](apc = "done" /\ IsSorted(sorted_array) =>
            /\ Present(sorted_array, target) =>
                  /\ index \in 0 .. Len(sorted_array) - 1
                  /\ sorted_array[index + 1] = target
            /\ ~Present(sorted_array, target) => index = 0 - 1
            /\ Present(test_array, target) => index # 0 - 1)
    /\ [][ apc = "line_27" /\ apc' = "line_27" =>
              right' - left' < right - left ]_vars
    /\ <>(apc = "done")

\* the search found the last element of a sorted list of four after it had
\* moved left twice
C18_Witness ==
    /\ apc = "done"
    /\ Len(sorted_array) = 4
    /\ target = 64
    /\ sorted_array = << 11, 11, 25, 64 >>
    /\ index = 3
    /\ left = 3

----------------------------------------------------------------------------
(* The commit scripts *)

\* C19: a script exits with 0 when it completes and with a non-zero status
\* on an uncaught fault: a failing git add or git commit stops it at that
\* step with a non-zero status and no later file or commit is made, while a
\* failing final git log query is swallowed (None is reported) and the
\* script completes with 0.
C19_ExitStatus ==
    /\ [](failed \in {"add", "commit", "open"} =>
            exit_code # Unset /\ exit_code # 0)
    /\ [](failed = "log" => exit_code = 0 /\ log_result = "None")
    /\ [](exit_code = 0 =>
            /\ Len(commits) = Len(plan)
            /\ Len(files) = Len(plan)
            /\ failed \in {"none", "log"})
    /\ [][(failed \in {"add", "commit"}) =>
            UNCHANGED << files, commits >> ]_vars
    /\ [][(failed = "none" /\ failed' \in {"add", "commit"}) =>
            UNCHANGED << files, commits >> ]_vars

\* create_perfect_portfolio stopped at the failing git commit of its third
\* file: two commits exist, three files were written
C19_Witness ==
    /\ script = "create_perfect_portfolio"
    /\ failed = "commit"
    /\ exit_code = 1
    /\ Len(commits) = 2
    /\ Len(files) = 3

\* date a is earlier than date b
Earlier(a, b) ==
    \/ a[1] < b[1]
    \/ a[1] = b[1] /\ a[2] < b[2]
    \/ a[1] = b[1] /\ a[2] = b[2] /\ a[3] < b[3]

\* C20: when a script has completed, its first commit is dated 2023-12-20,
\* every commit has equal author and committer date, the dates strictly
\* increase in commit order, and the last commit is dated in October 2025.
C20_TimelineToOctober2025 ==
    exit_code = 0 =>
       /\ commits[1].author_date = << 2023, 12, 20 >>
       /\ \A i \in 1 .. Len(commits) :
             commits[i].author_date = commits[i].committer_date
       /\ \A i \in 1 .. Len(commits) - 1 :
             Earlier(commits[i].author_date, commits[i + 1].author_date)
       /\ commits[Len(commits)].author_date[1] = 2025
       /\ commits[Len(commits)].author_date[2] = 10

----------------------------------------------------------------------------
(* What the return values of start_thermal_control and initialize_ai_model  *)
(* tell the caller                                                          *)

\* C21: whenever start_thermal_control returns False ('already running') a
\* loop thread is alive and the running flag is True, so the loop goes on
\* ticking; this holds after every sequence of calls, a start that follows a
\* stop_thermal_control whose join returned before the loop thread had
\* exited included.
C21_FalseMeansRunning ==
    [][ \A c \in callers :
          (StartDecides(c) /\ ret'[c] = "False") =>
             (LoopAlive /\ running) ]_vars

\* The step in which caller c's initialize_ai_model raises inside the try
\* block and returns False (lines 83-85)
InitReturnsFalse(c) ==
    \E fault \in InitFaults \ {"none"} : initialize_ai_model(c, fault)

\* C23: when initialize_ai_model returns False on an instance that was not
\* initialised, whichever statement raised, model is still None and accuracy
\* still 0.0 (so get_thermal_stats, which reports model is not None, says
\* model_initialized = False, and predict_thermal_behavior, which tests model
\* is None, takes the model-not-initialised fallback).
C23_FailedInitLeavesNone ==
    [][ \A c \in callers :
          (model = "None" /\ accuracy = 0 /\ InitReturnsFalse(c)) =>
             (model' = "None" /\ accuracy' = 0) ]_vars

----------------------------------------------------------------------------
(* The loop after stop_thermal_control *)

\* the ticks in flight that have not reached the append of line 209, and
\* those that have not reached the assignment inside optimize_cooling_system
AppendsAhead ==
    Cardinality({t \in Threads : tpc[t] \in {"predict", "optimize", "append"}})
WritesAhead ==
    Cardinality({t \in Threads : tpc[t] \in {"predict", "optimize"}})

\* C22: once running is False (and until a start sets it again) the loop
\* begins no new tick: only the tick in flight can still append a reading to
\* temperature_history or write power_reduction, each at most once.  At most
\* one tick is in flight; while running is False no tick begins, the number
\* of appends and of writes still ahead never grows, every reading appended
\* uses one up, and so does every change the loop makes to power_reduction.
C22_NoTickAfterStop ==
    /\ [](AppendsAhead <= 1 /\ WritesAhead <= 1)
    /\ [][ ~running =>
             /\ ticks' = ticks
             /\ AppendsAhead' <= AppendsAhead
             /\ WritesAhead' <= WritesAhead
             /\ appended' # appended => AppendsAhead' < AppendsAhead
             /\ (LoopThreadStep /\ power_reduction' # power_reduction) =>
                   WritesAhead' < WritesAhead ]_vars

\* stop_thermal_control has returned, running is False, and the tick that
\* was in flight has written power_reduction and stored its reading
C22_Witness ==
    /\ ~running
    /\ cpc[1] = "idle"
    /\ ret[1] = "True"
    /\ ticks = 1
    /\ Len(appended) = 1
    /\ power_reduction > 0
    /\ opt_arg = Unset
    /\ \E t \in Threads : tpc[t] = "evict"

----------------------------------------------------------------------------
(* The range of power_reduction *)

\* min(5 * (t - 75), 60) above 75 degrees, 0 up to 75 degrees
StoredReduction(t) ==
    IF t > 75 * Scale
    THEN (IF 5 * (t - 75 * Scale) < 60 * Scale
          THEN 5 * (t - 75 * Scale) ELSE 60 * Scale)
    ELSE 0

\* the dictionary d holds values in range
ReturnedInRange(d) ==
    /\ 0 <= d.power_reduction /\ d.power_reduction <= 60 * Scale
    /\ 0 <= d.cooling_power /\ d.cooling_power <= 100 * Scale
    /\ 0 <= d.fan_speed_increase /\ d.fan_speed_increase <= 50 * Scale

====
